---- MODULE Spec2Model ----
(***************************************************************************)
(* A model of serve.go: an HTTP file server that overlays several root     *)
(* directories.  One request is followed through the handler built by      *)
(* makeHandler, one filesystem call (os.Stat, os.Open, ioutil.ReadDir) per *)
(* step, while the served directories change underneath it.                *)
(*                                                                         *)
(* Strings are sequences of one-character strings, so that the string      *)
(* functions the code calls (strings.Contains, strings.FieldsFunc,         *)
(* filepath.Join, the sort inside ioutil.ReadDir) are computed and not     *)
(* assumed.                                                                *)
(***************************************************************************)
EXTENDS Naturals, Sequences, FiniteSets, TLC

VARIABLES
    fs,         \* per root directory: the object named ResName inside it
    indexFile,  \* the kind of the object at the path the index flag names
    index,      \* flag -i/--index ("" = no fallback)
    noList,     \* flag --no-list
    req,        \* the request being handled: URL path and Accept header
    pc,         \* where the handler is
    di,         \* position of the range loops over dirs (tryFiles, tryDirs)
    cand,       \* tryFiles: which of filePath / indexPath is being tried
    fileErr,    \* staticIndex: os.Open failed
    dirLists,   \* tryDirs: the listings gathered so far
    w,          \* the response written so far
    open,       \* file handles opened by os.Open and not closed
    ops,        \* history: the filesystem calls of this request, in order
    prevFile    \* history: the path the previous request was served a file for

vars == <<fs, indexFile, index, noList, req, pc, di, cand, fileErr, dirLists,
          w, open, ops, prevFile>>

(***************************************************************************)
(* Bounds of the model.                                                    *)
(***************************************************************************)
\* longest URL path given to validRequest on its own
MaxLen == 4
\* most entries a served directory holds
MaxEntries == 2
\* a new request is taken only while fewer handles than this are open
MaxOpen == 2

(***************************************************************************)
(* Strings.                                                                *)
(***************************************************************************)
Slash == "/"
BackSlash == "\\"
DotDot == <<".", ".">>
TextHtml == <<"t", "e", "x", "t", "/", "h", "t", "m", "l">>
AnyType == <<"*", "/", "*">>
IndexHtml == <<"i", "n", "d", "e", "x", ".", "h", "t", "m", "l">>
SubA == <<"a">>
BTxt == <<"b", ".", "t", "x", "t">>
ResName == <<"s">>

\* byte values of the characters that occur in file names (for string order)
Code(c) ==
    CASE c = "." -> 46
      [] c = "/" -> 47
      [] c = "a" -> 97
      [] c = "b" -> 98
      [] c = "d" -> 100
      [] c = "e" -> 101
      [] c = "h" -> 104
      [] c = "i" -> 105
      [] c = "l" -> 108
      [] c = "m" -> 109
      [] c = "n" -> 110
      [] c = "s" -> 115
      [] c = "t" -> 116
      [] c = "x" -> 120
      [] OTHER -> 0

\* Go's < on strings: byte-wise lexicographic
RECURSIVE StrLess(_, _)
StrLess(a, b) ==
    IF b = <<>> THEN FALSE
    ELSE IF a = <<>> THEN TRUE
    ELSE IF Code(Head(a)) # Code(Head(b)) THEN Code(Head(a)) < Code(Head(b))
    ELSE StrLess(Tail(a), Tail(b))

\* strings.Contains
Contains(s, sub) ==
    \E i \in 0..Len(s) :
        /\ i + Len(sub) <= Len(s)
        /\ SubSeq(s, i + 1, i + Len(sub)) = sub

\* strings.FieldsFunc with f = membership in seps: the maximal runs of
\* characters not in seps; empty runs are not fields
RECURSIVE FieldsFrom(_, _, _, _, _)
FieldsFrom(s, seps, i, cur, acc) ==
    IF i > Len(s)
    THEN IF cur = <<>> THEN acc ELSE Append(acc, cur)
    ELSE IF s[i] \in seps
    THEN FieldsFrom(s, seps, i + 1, <<>>, IF cur = <<>> THEN acc ELSE Append(acc, cur))
    ELSE FieldsFrom(s, seps, i + 1, Append(cur, s[i]), acc)

FieldsFunc(s, seps) == FieldsFrom(s, seps, 1, <<>>, <<>>)

\* func isSlashRune, as the set of runes it accepts
isSlashRune == {Slash, BackSlash}

\* a substring check in place of the token check
validRequest_Substring(path) == ~Contains(path, DotDot)

\* no check at all
validRequest_Always(path) == Len(path) >= 0

\* func validRequest, on r.URL.Path
validRequest(path) ==
    IF ~Contains(path, DotDot)
    THEN TRUE
    ELSE LET fields == FieldsFunc(path, isSlashRune)
         IN  \A k \in 1..Len(fields) : fields[k] # DotDot

(***************************************************************************)
(* filepath.Join: the elements joined by the separator, then Clean.        *)
(***************************************************************************)
RECURSIVE JoinSlash(_)
JoinSlash(comps) ==
    IF comps = <<>> THEN <<>>
    ELSE IF Len(comps) = 1 THEN comps[1]
    ELSE comps[1] \o <<Slash>> \o JoinSlash(Tail(comps))

\* Clean's pass over the path elements: "." and empty elements are dropped,
\* ".." removes the element before it (none is left to remove at a rooted
\* path's start; a relative path keeps a leading "..")
RECURSIVE CleanFrom(_, _, _, _)
CleanFrom(comps, i, out, rooted) ==
    IF i > Len(comps) THEN out
    ELSE IF comps[i] = <<".">> THEN CleanFrom(comps, i + 1, out, rooted)
    ELSE IF comps[i] = DotDot
    THEN IF out # <<>> /\ out[Len(out)] # DotDot
         THEN CleanFrom(comps, i + 1, SubSeq(out, 1, Len(out) - 1), rooted)
         ELSE IF rooted THEN CleanFrom(comps, i + 1, out, rooted)
         ELSE CleanFrom(comps, i + 1, Append(out, DotDot), rooted)
    ELSE CleanFrom(comps, i + 1, Append(out, comps[i]), rooted)

Clean(p) ==
    LET rooted == p # <<>> /\ p[1] = Slash
        out == CleanFrom(FieldsFunc(p, {Slash}), 1, <<>>, rooted)
    IN  IF rooted THEN <<Slash>> \o JoinSlash(out)
        ELSE IF out = <<>> THEN <<".">>
        ELSE JoinSlash(out)

Join(a, b) ==
    IF a = <<>> /\ b = <<>> THEN <<>>
    ELSE Clean(IF a = <<>> THEN b ELSE IF b = <<>> THEN a ELSE a \o <<Slash>> \o b)

(***************************************************************************)
(* Configuration and the filesystem.                                       *)
(***************************************************************************)
\* func serve: dirs, the positional arguments, in order
dirs == << <<"A">>, <<"B">> >>

DirSet == {dirs[k] : k \in 1..Len(dirs)}

\* the path the index flag names when it is given
IndexFilePath == <<"i">>

\* the request paths the handler is driven with: one that names the object
\* s of every root, one with ".." inside a longer token, and two that
\* climb out of the root (with "/" and with "\")
ReqPaths ==
    { <<"/", "s">>,
      <<"/", "s", ".", ".">>,
      <<"/", ".", ".", "/", "s">>,
      <<"/", "s", "\\", ".", ".">> }

\* an Accept header that names text/html after another type, and one without it
AcceptHtml == AnyType \o <<",">> \o TextHtml

AcceptValues == {AcceptHtml, AnyType}

NoObj == [kind |-> "none", ents |-> <<>>]
FileObj == [kind |-> "file", ents |-> <<>>]
LockedObj == [kind |-> "locked", ents |-> <<>>]

\* what a directory can hold: a subdirectory a and the files b.txt and
\* index.html
DirEntries ==
    { [name |-> SubA, kind |-> "dir"], [name |-> BTxt, kind |-> "file"],
      [name |-> IndexHtml, kind |-> "file"] }

\* the entries of a directory in the order the filesystem holds them
DirContents ==
    UNION { { c \in [1..n -> DirEntries] :
                \A j, k \in 1..n : j # k => c[j].name # c[k].name } :
            n \in 0..MaxEntries }

\* the objects a root can hold under the name s: nothing, a readable file,
\* a file that cannot be opened, or a directory
Nodes == {NoObj, FileObj, LockedObj} \cup {[kind |-> "dir", ents |-> c] : c \in DirContents}

\* the paths the handler can hand to the filesystem, and their elements
\* (tables of Join and FieldsFunc, computed once)
FilePaths == [d \in DirSet, p \in ReqPaths |-> Join(d, p)]

IndexPaths == [d \in DirSet, p \in ReqPaths |-> Join(FilePaths[d, p], IndexHtml)]

KnownPaths ==
    {FilePaths[d, p] : d \in DirSet, p \in ReqPaths}
        \cup {IndexPaths[d, p] : d \in DirSet, p \in ReqPaths} \cup {IndexFilePath}

Elements == [path \in KnownPaths |-> FieldsFunc(path, {Slash})]

\* the object at the path whose elements are c
ObjectAt(path, c) ==
        IF path = IndexFilePath THEN [kind |-> indexFile, ents |-> <<>>]
        ELSE IF c = <<>> \/ c[1] \notin DirSet \/ path[1] = Slash THEN NoObj
        ELSE IF Len(c) = 1
        THEN [kind |-> "dir",
              ents |-> IF fs[c[1]].kind = "none" THEN <<>>
                       ELSE << [name |-> ResName, kind |-> fs[c[1]].kind] >>]
        ELSE IF c[2] # ResName THEN NoObj
        ELSE IF Len(c) = 2 THEN fs[c[1]]
        ELSE IF Len(c) = 3 /\ \E k \in 1..Len(fs[c[1]].ents) : fs[c[1]].ents[k].name = c[3]
        THEN LET k == CHOOSE k \in 1..Len(fs[c[1]].ents) : fs[c[1]].ents[k].name = c[3]
             IN  [kind |-> fs[c[1]].ents[k].kind, ents |-> <<>>]
        ELSE NoObj

\* the object a path names
Lookup(path) == ObjectAt(path, Elements[path])

\* os.Stat: an error, or whether the object is a directory
osStat(path) ==
    LET o == Lookup(path)
    IN  [err |-> o.kind = "none", isDir |-> o.kind = "dir"]

\* os.Open: succeeds on a readable file and on a directory
osOpen(path) == [err |-> Lookup(path).kind \notin {"file", "dir"}]

\* sort.Slice(list, by Name) of ioutil.ReadDir: insertion of e into a sorted list
RECURSIVE InsertByName(_, _)
InsertByName(e, list) ==
    IF list = <<>> THEN <<e>>
    ELSE IF StrLess(e.Name, Head(list).Name) THEN <<e>> \o list
    ELSE <<Head(list)>> \o InsertByName(e, Tail(list))

RECURSIVE SortByName(_)
SortByName(list) ==
    IF list = <<>> THEN <<>>
    ELSE InsertByName(Head(list), SortByName(Tail(list)))

\* the entries as the filesystem holds them, unsorted
ReadDirList_Unsorted(o) ==
    [k \in 1..Len(o.ents) |-> [Name |-> o.ents[k].name, IsDir |-> o.ents[k].kind = "dir"]]

\* the list ioutil.ReadDir returns for a directory: its entries sorted by filename
ReadDirList(o) ==
    SortByName([k \in 1..Len(o.ents) |->
                   [Name |-> o.ents[k].name, IsDir |-> o.ents[k].kind = "dir"]])

\* ioutil.ReadDir
ioutilReadDir(path) ==
    LET o == Lookup(path)
    IN  IF o.kind # "dir" THEN [err |-> TRUE, list |-> <<>>]
        ELSE [err |-> FALSE, list |-> ReadDirList(o)]

(***************************************************************************)
(* The response.                                                           *)
(***************************************************************************)
NoReq == [path |-> <<>>, accept |-> <<>>]

\* nothing written yet
NoResp == [status |-> 0, outcome |-> "none", name |-> <<>>, ctype |-> "", lists |-> <<>>]

\* http.Error(w, "invalid path", http.StatusBadRequest)
BadRequest(resp) ==
    [resp EXCEPT !.status = 400, !.outcome = "error", !.ctype = "text/plain; charset=utf-8"]

\* http.NotFound(w, r)
NotFound(resp) ==
    [resp EXCEPT !.status = 404, !.outcome = "notfound", !.ctype = "text/plain; charset=utf-8"]

\* http.ServeContent on the handle opened at path; the range and
\* conditional-request handling inside ServeContent is not modelled
ServeContent(resp, path, what) ==
    [resp EXCEPT !.status = 200, !.outcome = what, !.name = path, !.ctype = "sniffed"]

\* tryDirs: the Content-Type header and htmlTmpl.Execute(w, dirLists)
RenderListing(resp, lists) ==
    [resp EXCEPT !.status = 200, !.outcome = "listing",
                 !.ctype = "text/html; charset=utf-8", !.lists = lists]

\* the first entry of every listing
ParentEntry == [Name |-> DotDot, IsDir |-> TRUE]

(***************************************************************************)
(* The handler of makeHandler, one filesystem call per step.               *)
(***************************************************************************)
\* tryFiles: filePath and indexPath of the root the loop is at
\* filepath.Join(dir, r.URL.Path)
FilePath == FilePaths[dirs[di], req.path]

\* filepath.Join(filePath, "index.html")
IndexPath == IndexPaths[dirs[di], req.path]

CandPath == IF cand = "filePath" THEN FilePath ELSE IndexPath

\* tryDirs: dirPath of the root the loop is at
DirPath == FilePaths[dirs[di], req.path]

\* strings.Contains(r.Header.Get("Accept"), "text/html")
AcceptsHtml == Contains(req.accept, TextHtml)

Ctl(p, d, c, resp) == [pc |-> p, di |-> d, cand |-> c, w |-> resp]

Goto(c) ==
    /\ pc' = c.pc
    /\ di' = c.di
    /\ cand' = c.cand
    /\ w' = c.w

\* the handler returns; net/http answers 200 with an empty body when the
\* handler has written nothing
Return(resp) ==
    Ctl("done", 1, "filePath",
        IF resp.status = 0 THEN [resp EXCEPT !.status = 200, !.outcome = "empty"] ELSE resp)

\* makeHandler from the call of tryDirs on
AfterIndex(resp) ==
    IF ~noList
    THEN Ctl("tryDirs", 1, "filePath", resp)
    ELSE Return(NotFound(resp))

\* the listing pass ahead of the fallback
AfterFiles_DirsFirst(resp) ==
    IF ~AcceptsHtml THEN Return(resp)
    ELSE IF ~noList THEN Ctl("tryDirs", 1, "filePath", resp)
    ELSE IF Len(index) > 0 THEN Ctl("staticIndex_Open", 1, "filePath", resp)
    ELSE Return(NotFound(resp))

\* makeHandler once tryFiles has returned false
AfterFiles(resp) ==
    IF ~AcceptsHtml THEN Return(resp)
    ELSE IF Len(index) > 0 THEN Ctl("staticIndex_Open", 1, "filePath", resp)
    ELSE AfterIndex(resp)

\* index.html of every root tried only after the bare path of every root
FileMiss_IndexLast(resp) ==
    IF di < Len(dirs) THEN Ctl("tryFile_Stat", di + 1, cand, resp)
    ELSE IF cand = "filePath" THEN Ctl("tryFile_Stat", 1, "indexPath", resp)
    ELSE AfterFiles(resp)

\* tryFiles after a tryFile that returned false
FileMiss(resp) ==
    IF cand = "filePath" THEN Ctl("tryFile_Stat", di, "indexPath", resp)
    ELSE IF di < Len(dirs) THEN Ctl("tryFile_Stat", di + 1, "filePath", resp)
    ELSE AfterFiles(resp)

\* an open that fails after a successful stat answered as a server error
OpenFailed_ServerError(resp) ==
    Return([resp EXCEPT !.status = 500, !.outcome = "error"])

\* tryFile when os.Open fails: return false
OpenFailed(resp) == FileMiss(resp)

\* a failed ReadDir ends the loop
DirSkipped_Stop(lists) ==
    IF lists # <<>> THEN Return(RenderListing(w, lists)) ELSE Return(NotFound(w))

\* tryDirs when ioutil.ReadDir fails: continue with the next root
DirSkipped(lists) ==
    IF di < Len(dirs) THEN Ctl("tryDirs", di + 1, "filePath", w)
    ELSE IF lists # <<>> THEN Return(RenderListing(w, lists))
    ELSE Return(NotFound(w))

Log(o, p, r) == ops' = Append(ops, [op |-> o, path |-> p, res |-> r])

\* a request arrives
Receive(p, a) ==
    /\ pc = "idle"
    /\ open < MaxOpen
    /\ req' = [path |-> p, accept |-> a]
    /\ pc' = "validRequest"
    /\ di' = 1
    /\ cand' = "filePath"
    /\ fileErr' = FALSE
    /\ dirLists' = <<>>
    /\ w' = NoResp
    /\ ops' = <<>>
    /\ UNCHANGED <<fs, indexFile, index, noList, open, prevFile>>

\* makeHandler: if !validRequest(r) { http.Error(400); return }
ValidRequestStep ==
    /\ pc = "validRequest"
    /\ IF validRequest(req.path)
       THEN Goto(Ctl("tryFile_Stat", 1, "filePath", w))
       ELSE Goto(Return(BadRequest(w)))
    /\ UNCHANGED <<fs, indexFile, index, noList, req, fileErr, dirLists, open, ops,
                   prevFile>>

\* tryFile: os.Stat(filePath); statErr != nil || stat.IsDir() returns false
TryFileStat ==
    /\ pc = "tryFile_Stat"
    /\ LET st == osStat(CandPath)
       IN  /\ Log("stat", CandPath,
                  IF st.err THEN "err" ELSE IF st.isDir THEN "dir" ELSE "file")
           /\ IF st.err \/ st.isDir
              THEN Goto(FileMiss(w))
              ELSE Goto(Ctl("tryFile_Open", di, cand, w))
    /\ UNCHANGED <<fs, indexFile, index, noList, req, fileErr, dirLists, open, prevFile>>

\* tryFile: os.Open(filePath), then http.ServeContent and return true; the
\* handle is not closed
TryFileOpen ==
    /\ pc = "tryFile_Open"
    /\ LET f == osOpen(CandPath)
       IN  /\ Log("open", CandPath, IF f.err THEN "err" ELSE "ok")
           /\ IF f.err
              THEN /\ Goto(OpenFailed(w))
                   /\ open' = open
              ELSE /\ Goto(Return(ServeContent(w, CandPath, "file")))
                   /\ open' = open + 1
    /\ UNCHANGED <<fs, indexFile, index, noList, req, fileErr, dirLists, prevFile>>

\* staticIndex: file, fileErr := os.Open(index)
StaticIndexOpen ==
    /\ pc = "staticIndex_Open"
    /\ LET f == osOpen(index)
       IN  /\ Log("open", index, IF f.err THEN "err" ELSE "ok")
           /\ fileErr' = f.err
           /\ open' = IF f.err THEN open ELSE open + 1
    /\ pc' = "staticIndex_Stat"
    /\ UNCHANGED <<fs, indexFile, index, noList, req, di, cand, dirLists, w, prevFile>>

\* staticIndex: stat, statErr := os.Stat(index); either error returns
\* false, else http.ServeContent and return true; the handle is not closed
StaticIndexStat ==
    /\ pc = "staticIndex_Stat"
    /\ LET st == osStat(index)
       IN  /\ Log("stat", index,
                  IF st.err THEN "err" ELSE IF st.isDir THEN "dir" ELSE "file")
           /\ IF fileErr \/ st.err
              THEN Goto(AfterIndex(w))
              ELSE Goto(Return(ServeContent(w, index, "fallback")))
    /\ UNCHANGED <<fs, indexFile, index, noList, req, fileErr, dirLists, open, prevFile>>

\* tryDirs: one turn of the loop over dirs, and after the last one the
\* rendering of what was found
TryDirsRead ==
    /\ pc = "tryDirs"
    /\ LET rd == ioutilReadDir(DirPath)
           lists == IF rd.err THEN dirLists
                    ELSE Append(dirLists,
                                [LocalPath |-> dirs[di], RequestPath |-> req.path,
                                 Entries |-> <<ParentEntry>> \o rd.list])
       IN  /\ Log("readdir", DirPath, IF rd.err THEN "err" ELSE "ok")
           /\ dirLists' = lists
           /\ IF rd.err
              THEN Goto(DirSkipped(lists))
              ELSE IF di < Len(dirs)
              THEN Goto(Ctl("tryDirs", di + 1, "filePath", w))
              ELSE Goto(Return(RenderListing(w, lists)))
    /\ UNCHANGED <<fs, indexFile, index, noList, req, fileErr, open, prevFile>>

\* handles the handler still holds
InUse == IF pc = "staticIndex_Stat" /\ ~fileErr THEN 1 ELSE 0

\* the finalizer of an *os.File that is no longer reachable closes it, at
\* whatever time the garbage collector runs
Finalize ==
    /\ open > InUse
    /\ open' = open - 1
    /\ UNCHANGED <<fs, indexFile, index, noList, req, pc, di, cand, fileErr,
                   dirLists, w, ops, prevFile>>

\* another process changes what a root holds, between two requests
FsChange(d, node) ==
    /\ pc = "idle"
    /\ node # fs[d]
    /\ fs' = [fs EXCEPT ![d] = node]
    /\ UNCHANGED <<indexFile, index, noList, req, pc, di, cand, fileErr,
                   dirLists, w, open, ops, prevFile>>

\* another process changes the file the index flag names, between two requests
IndexChange(k) ==
    /\ pc = "idle"
    /\ Len(index) > 0
    /\ k # indexFile
    /\ indexFile' = k
    /\ UNCHANGED <<fs, index, noList, req, pc, di, cand, fileErr,
                   dirLists, w, open, ops, prevFile>>

\* the connection of an answered request is done with
Finish ==
    /\ pc = "done"
    /\ pc' = "idle"
    /\ req' = NoReq
    /\ fileErr' = FALSE
    /\ dirLists' = <<>>
    /\ w' = NoResp
    /\ ops' = <<>>
    /\ prevFile' = IF w.outcome = "file" THEN req.path ELSE <<>>
    /\ UNCHANGED <<fs, indexFile, index, noList, di, cand, open>>

IndexKinds == {"none", "file", "locked"}

\* func getFlags and func serve: the flags are set once, the roots are empty
Init ==
    /\ fs = [d \in DirSet |-> NoObj]
    /\ indexFile = "none"
    /\ index \in {<<>>, IndexFilePath}
    /\ noList \in BOOLEAN
    /\ req = NoReq
    /\ pc = "idle"
    /\ di = 1
    /\ cand = "filePath"
    /\ fileErr = FALSE
    /\ dirLists = <<>>
    /\ w = NoResp
    /\ open = 0
    /\ ops = <<>>
    /\ prevFile = <<>>

Next ==
    \/ \E p \in ReqPaths, a \in AcceptValues : Receive(p, a)
    \/ ValidRequestStep
    \/ TryFileStat
    \/ TryFileOpen
    \/ StaticIndexOpen
    \/ StaticIndexStat
    \/ TryDirsRead
    \/ Finalize
    \/ Finish
    \/ \E d \in DirSet, node \in Nodes : FsChange(d, node)
    \/ \E k \in IndexKinds : IndexChange(k)

Spec == Init /\ [][Next]_vars

(***************************************************************************)
(* validRequest on its own: every URL path of up to MaxLen characters over *)
(* the two separators, the dot and a letter is validated.                  *)
(***************************************************************************)
Runes == {Slash, BackSlash, ".", "s"}

AllPaths == UNION {[1..n -> Runes] : n \in 0..MaxLen}

InitValid ==
    /\ fs = [d \in DirSet |-> NoObj]
    /\ indexFile = "none"
    /\ index = <<>>
    /\ noList = FALSE
    /\ req \in {[path |-> p, accept |-> AnyType] : p \in AllPaths}
    /\ pc = "validRequest"
    /\ di = 1
    /\ cand = "filePath"
    /\ fileErr = FALSE
    /\ dirLists = <<>>
    /\ w = NoResp
    /\ open = 0
    /\ ops = <<>>
    /\ prevFile = <<>>

NextValid == ValidRequestStep

SpecValid == InitValid /\ [][NextValid]_vars

(***************************************************************************)
(* The handler with check-then-use races: besides the changes between two  *)
(* requests, another process changes the object tryFile has just stat'ed   *)
(* before tryFile opens it, and the file staticIndex has just opened       *)
(* before staticIndex stats it.                                            *)
(***************************************************************************)
EmptyDir == [kind |-> "dir", ents |-> <<>>]

DirWithIndex == [kind |-> "dir", ents |-> << [name |-> IndexHtml, kind |-> "file"] >>]

RaceNodes == {NoObj, FileObj, EmptyDir, DirWithIndex}

\* between os.Stat and os.Open of tryFile, the root at hand changes
FsRace(node) ==
    /\ pc = "tryFile_Open"
    /\ node # fs[dirs[di]]
    /\ fs' = [fs EXCEPT ![dirs[di]] = node]
    /\ UNCHANGED <<indexFile, index, noList, req, pc, di, cand, fileErr,
                   dirLists, w, open, ops, prevFile>>

\* between os.Open and os.Stat of staticIndex, the file is deleted or created
IndexRace(k) ==
    /\ pc = "staticIndex_Stat"
    /\ k # indexFile
    /\ indexFile' = k
    /\ UNCHANGED <<fs, index, noList, req, pc, di, cand, fileErr,
                   dirLists, w, open, ops, prevFile>>

NextRace ==
    \/ \E p \in ReqPaths, a \in AcceptValues : Receive(p, a)
    \/ ValidRequestStep
    \/ TryFileStat
    \/ TryFileOpen
    \/ StaticIndexOpen
    \/ StaticIndexStat
    \/ TryDirsRead
    \/ Finalize
    \/ Finish
    \/ \E d \in DirSet, node \in Nodes : FsChange(d, node)
    \/ \E k \in IndexKinds : IndexChange(k)
    \/ \E node \in RaceNodes : FsRace(node)
    \/ \E k \in {"none", "file"} : IndexRace(k)

SpecRace == Init /\ [][NextRace]_vars

(***************************************************************************)
(* What the claims speak of, stated without the handler's own definitions. *)
(***************************************************************************)
\* some field of the path, between separators or the path's ends, is ".."
HasDotDotToken(path) ==
    \E i \in 1..(Len(path) - 1) :
        /\ path[i] = "." /\ path[i + 1] = "."
        /\ (i = 1 \/ path[i - 1] \in {Slash, BackSlash})
        /\ (i + 1 = Len(path) \/ path[i + 2] \in {Slash, BackSlash})

NumCands == 2 * Len(dirs)

\* the candidates of the file pass in the order r1/p, r1/p/index.html, r2/p, ...
CandSeq(p) ==
    [k \in 1..NumCands |->
        IF k % 2 = 1 THEN FilePaths[dirs[(k + 1) \div 2], p]
        ELSE IndexPaths[dirs[k \div 2], p]]

\* the candidates that are of one of the kinds
CandsOfKind(p, kinds) == {k \in 1..NumCands : Lookup(CandSeq(p)[k]).kind \in kinds}

Min(S) == CHOOSE m \in S : \A n \in S : m <= n

\* the request is answered and its path has passed validation
DoneValid == pc = "done" /\ ~HasDotDotToken(req.path)

\* the filesystem calls of the request that are of one kind
OpsOf(o) == {j \in 1..Len(ops) : ops[j].op = o}

\* the roots whose directory at the request path can be enumerated, in order
Enumerable(p) ==
    LET IsDir(d) == Lookup(FilePaths[d, p]).kind = "dir"
    IN  SelectSeq(dirs, IsDir)

(***************************************************************************)
(* C1.  validRequest rejects a path exactly when one of its fields, split  *)
(* on "/" and "\", is "..": a path with ".." only inside a longer token is *)
(* accepted.  (Specification SpecValid: all paths up to MaxLen.)           *)
(***************************************************************************)
C1_TokenLevelCheck ==
    pc # "validRequest" =>
        ((pc = "done" /\ w.status = 400) <=> HasDotDotToken(req.path))

\* a path that contains ".." inside a longer token has been accepted
C1_Witness ==
    /\ pc = "tryFile_Stat"
    /\ Contains(req.path, DotDot)
    /\ ~HasDotDotToken(req.path)
    /\ w.status = 0

(***************************************************************************)
(* C2.  Validation precedes resolution: no filesystem call is made before  *)
(* validRequest has accepted the path, and a rejected path is answered 400 *)
(* with no filesystem call at all.                                         *)
(***************************************************************************)
C2_ValidationFirst ==
    /\ pc = "validRequest" => ops = <<>>
    /\ ops # <<>> => ~HasDotDotToken(req.path)
    /\ (pc \notin {"idle", "validRequest"} /\ HasDotDotToken(req.path)) =>
           /\ pc = "done"
           /\ w.status = 400
           /\ ops = <<>>

\* a traversal path was answered 400 while a root holds a file it could reach
C2_Witness ==
    /\ pc = "done"
    /\ HasDotDotToken(req.path)
    /\ w.status = 400
    /\ ops = <<>>
    /\ fs[dirs[1]] = FileObj

(***************************************************************************)
(* C3, as claimed.  The file served is the first candidate, in the order   *)
(* r1/p, r1/p/index.html, r2/p, ..., that exists and is a regular file.    *)
(***************************************************************************)
C3_FirstRegularFile ==
    DoneValid =>
        LET reg == CandsOfKind(req.path, {"file", "locked"})
        IN  IF reg = {} THEN w.outcome # "file"
            ELSE w.outcome = "file" /\ w.name = CandSeq(req.path)[Min(reg)]

(***************************************************************************)
(* C3, amended.  The file served is the first candidate, in that order,    *)
(* that exists, is not a directory and can be opened; candidates after it  *)
(* are neither stat'ed nor opened.                                          *)
(***************************************************************************)
C3_FirstOpenableFile ==
    DoneValid =>
        LET ok == CandsOfKind(req.path, {"file"})
        IN  IF ok = {} THEN w.outcome # "file"
            ELSE /\ w.outcome = "file"
                 /\ w.status = 200
                 /\ w.name = CandSeq(req.path)[Min(ok)]
                 /\ \A j \in 1..Len(ops) :
                        \E k \in 1..Min(ok) : ops[j].path = CandSeq(req.path)[k]
                 /\ ops[Len(ops)] = [op |-> "open", path |-> w.name, res |-> "ok"]

\* r1/p is a directory with an index.html, r2/p is a file: r1/p/index.html is served
C3_Witness ==
    /\ DoneValid
    /\ fs[dirs[1]].kind = "dir"
    /\ fs[dirs[2]] = FileObj
    /\ w.outcome = "file"
    /\ w.name = IndexPaths[dirs[1], req.path]

(***************************************************************************)
(* C4.  Every resolution miss yields 404: a valid request that is served   *)
(* no file, no fallback and no listing is answered 404, whatever its       *)
(* Accept header.                                                          *)
(***************************************************************************)
C4_MissIs404 ==
    (DoneValid /\ w.outcome \notin {"file", "fallback", "listing"}) => w.status = 404

(***************************************************************************)
(* C5.  Fallback pass: when the Accept header contains text/html, no       *)
(* candidate of the file pass can be served and the configured fallback    *)
(* can be opened and stat'ed, the fallback is served with 200 and no       *)
(* directory is enumerated; the fallback is touched only after a file pass *)
(* without a match, and only for a request that accepts text/html.         *)
(***************************************************************************)
C5_FallbackPass ==
    /\ ( /\ DoneValid
         /\ Contains(req.accept, TextHtml)
         /\ CandsOfKind(req.path, {"file"}) = {}
         /\ Len(index) > 0
         /\ indexFile = "file" ) =>
           /\ w.status = 200
           /\ w.outcome = "fallback"
           /\ w.name = index
           /\ w.lists = <<>>
           /\ OpsOf("readdir") = {}
    /\ (\E j \in 1..Len(ops) : ops[j].path = IndexFilePath) =>
           /\ Contains(req.accept, TextHtml)
           /\ ~HasDotDotToken(req.path)
           /\ Len(index) > 0
           /\ w.outcome # "file"
           /\ \A k \in 1..NumCands : \E j \in OpsOf("stat") : ops[j].path = CandSeq(req.path)[k]
    /\ (pc = "done" /\ w.outcome = "fallback") => (\E j \in 1..Len(ops) : ops[j].path = IndexFilePath)

\* the fallback is served although a root holds a directory that could be listed
C5_Witness ==
    /\ DoneValid
    /\ w.outcome = "fallback"
    /\ w.status = 200
    /\ ~noList
    /\ fs[dirs[2]].kind = "dir"

(***************************************************************************)
(* C6.  Listing pass: once it runs, every root is enumerated; the result   *)
(* holds one listing per root whose directory at the request path can be   *)
(* enumerated, in the order of the roots, with that root's path and the    *)
(* request path; the other roots are skipped; a listing is rendered (200,  *)
(* text/html; charset=utf-8) exactly when some root was enumerated, and    *)
(* the answer is 404 otherwise.                                            *)
(***************************************************************************)
C6_ListingOverlay ==
    (pc = "done" /\ OpsOf("readdir") # {}) =>
        LET en == Enumerable(req.path)
        IN  /\ Cardinality(OpsOf("readdir")) = Len(dirs)
            /\ Len(dirLists) = Len(en)
            /\ \A k \in 1..Len(en) :
                   /\ dirLists[k].LocalPath = en[k]
                   /\ dirLists[k].RequestPath = req.path
            /\ IF en # <<>>
               THEN /\ w.status = 200
                    /\ w.outcome = "listing"
                    /\ w.ctype = "text/html; charset=utf-8"
                    /\ w.lists = dirLists
               ELSE w.status = 404 /\ w.outcome = "notfound"

\* the first root holds a file at the path, the second a directory: the
\* listing holds the second root's directory alone
C6_Witness ==
    /\ pc = "done"
    /\ fs[dirs[1]].kind = "locked"
    /\ fs[dirs[2]].kind = "dir"
    /\ w.outcome = "listing"
    /\ Len(w.lists) = 1
    /\ w.lists[1].LocalPath = dirs[2]

(***************************************************************************)
(* C7, as claimed.  In every listing ".." comes first and the other        *)
(* entries follow in the order the filesystem holds them.                  *)
(***************************************************************************)
C7_FilesystemOrder ==
    (pc = "done" /\ w.outcome = "listing") =>
        \A k \in 1..Len(w.lists) :
            LET o == Lookup(FilePaths[w.lists[k].LocalPath, req.path])
            IN  w.lists[k].Entries =
                    <<ParentEntry>> \o
                    [j \in 1..Len(o.ents) |->
                        [Name |-> o.ents[j].name, IsDir |-> o.ents[j].kind = "dir"]]

(***************************************************************************)
(* C7, amended.  In every listing ".." comes first, also when the          *)
(* directory is empty, and the other entries are the directory's entries   *)
(* in ascending order of their names, whatever order the filesystem holds  *)
(* them in.                                                                *)
(***************************************************************************)
C7_ParentFirstThenByName ==
    (pc = "done" /\ w.outcome = "listing") =>
        \A k \in 1..Len(w.lists) :
            LET o == Lookup(FilePaths[w.lists[k].LocalPath, req.path])
                es == w.lists[k].Entries
            IN  /\ Len(es) = Len(o.ents) + 1
                /\ es[1] = [Name |-> DotDot, IsDir |-> TRUE]
                /\ \A j \in 1..Len(o.ents) :
                       \E i \in 2..Len(es) :
                           /\ es[i].Name = o.ents[j].name
                           /\ es[i].IsDir = (o.ents[j].kind = "dir")
                /\ \A i \in 2..(Len(es) - 1) : StrLess(es[i].Name, es[i + 1].Name)

\* a directory that holds b.txt before a is listed as "..", a, b.txt
C7_Witness ==
    /\ pc = "done"
    /\ w.outcome = "listing"
    /\ fs[dirs[1]].kind = "dir"
    /\ Len(fs[dirs[1]].ents) = 2
    /\ fs[dirs[1]].ents[1].name = BTxt
    /\ fs[dirs[1]].ents[2].name = SubA
    /\ w.lists[1].Entries =
           << [Name |-> DotDot, IsDir |-> TRUE], [Name |-> SubA, IsDir |-> TRUE],
              [Name |-> BTxt, IsDir |-> FALSE] >>

(***************************************************************************)
(* C8.  No caching: a path that was served a file by the previous request  *)
(* and whose file has been deleted since (no root holds anything at the    *)
(* path, no fallback is configured) is answered 404.                       *)
(***************************************************************************)
C8_DeletedFileIs404 ==
    ( /\ pc = "done"
      /\ prevFile = req.path
      /\ \A d \in DirSet : fs[d] = NoObj
      /\ Len(index) = 0 ) => w.status = 404

(***************************************************************************)
(* C9.  Scoped file handles: when a request has been answered, and between *)
(* requests, no file handle is open.                                       *)
(***************************************************************************)
C9_HandlesReleased == pc \in {"idle", "done"} => open = 0

(***************************************************************************)
(* C10.  A check-then-use race degrades to no match (specification         *)
(* SpecRace): no filesystem call is repeated; an os.Open in tryFile that   *)
(* fails after a successful os.Stat is followed by what follows a failed   *)
(* os.Stat (the stat of the next candidate, or after the last candidate    *)
(* the next pass or the end of the request); an os.Stat in staticIndex     *)
(* that fails after a successful os.Open is followed by the listing pass   *)
(* or 404; and the answer is never a 5xx.                                  *)
(***************************************************************************)
C10_RaceDegradesToNoMatch ==
    /\ w.status < 500
    /\ \A j, k \in 1..Len(ops) :
           (j # k) => (ops[j].op # ops[k].op \/ ops[j].path # ops[k].path)
    /\ \A j \in 1..Len(ops) :
           (ops[j].op = "open" /\ ops[j].res = "err" /\ ops[j].path # IndexFilePath) =>
               LET m == CHOOSE k \in 1..NumCands : CandSeq(req.path)[k] = ops[j].path
               IN  /\ ops[j - 1] = [op |-> "stat", path |-> ops[j].path, res |-> "file"]
                   /\ IF j < Len(ops)
                      THEN IF m < NumCands
                           THEN /\ ops[j + 1].op = "stat"
                                /\ ops[j + 1].path = CandSeq(req.path)[m + 1]
                           ELSE /\ Contains(req.accept, TextHtml)
                                /\ IF Len(index) > 0
                                   THEN ops[j + 1].op = "open" /\ ops[j + 1].path = index
                                   ELSE /\ ops[j + 1].op = "readdir"
                                        /\ ops[j + 1].path = FilePaths[dirs[1], req.path]
                      ELSE IF m < NumCands
                           THEN pc = "tryFile_Stat" /\ CandPath = CandSeq(req.path)[m + 1]
                           ELSE \/ pc = "staticIndex_Open"
                                \/ pc = "tryDirs" /\ di = 1
                                \/ pc = "done" /\ w.outcome \in {"empty", "notfound"}
    /\ \A j \in 1..Len(ops) :
           ( /\ ops[j] = [op |-> "stat", path |-> IndexFilePath, res |-> "err"]
             /\ ops[j - 1] = [op |-> "open", path |-> IndexFilePath, res |-> "ok"] ) =>
               IF j < Len(ops)
               THEN ops[j + 1].op = "readdir" /\ ops[j + 1].path = FilePaths[dirs[1], req.path]
               ELSE \/ pc = "tryDirs" /\ di = 1
                    \/ pc = "done" /\ w.status = 404

\* the file of the first root disappeared between stat and open, and the
\* request went on to serve the file of the second root
C10_Witness ==
    /\ pc = "done"
    /\ Len(ops) >= 2
    /\ ops[1] = [op |-> "stat", path |-> FilePaths[dirs[1], req.path], res |-> "file"]
    /\ ops[2] = [op |-> "open", path |-> FilePaths[dirs[1], req.path], res |-> "err"]
    /\ fs[dirs[1]] = NoObj
    /\ w.status = 200
    /\ w.outcome = "file"
    /\ w.name = FilePaths[dirs[2], req.path]

====
